---- MODULE Spec2Model ----
(***************************************************************************)
(* Azure resource tagging compliance: the checker of src/tag_compliance.py *)
(* (evaluation, scan, remediation, report), the policy loading and the     *)
(* rule lookup of src/config.py, the tag update of src/azure_client.py and *)
(* the message of src/reporters/notification.py.                           *)
(*                                                                         *)
(* Python values are represented as follows.                               *)
(*   str that is split on '/'  a sequence of tokens, the token "/" being   *)
(*                             the separator character and every other     *)
(*                             token a non-empty text without '/'          *)
(*   other str                 a TLA+ string                               *)
(*   dict                      a function whose domain is the key set      *)
(*   list                      a sequence                                  *)
(*   None                      NoneVal                                     *)
(*   float                     a fraction <<numerator, denominator>> in    *)
(*                             lowest terms; a float rounded to 2 places   *)
(*                             is the integer number of hundredths         *)
(***************************************************************************)
EXTENDS Integers, Sequences, FiniteSets, TLC

VARIABLES
    required_tags,       \* checker.required_tags
    results,             \* checker.results
    cloud,               \* the resources Azure holds, per subscription
    remediation_rules,   \* Config._remediation_rules
    remediations,        \* the number of remediation calls made so far
    call,                \* the operation called last, with its arguments
    retval,              \* what that call returned (or raised)
    now,                 \* datetime.utcnow()
    sub_idx,             \* main: position in the list of subscriptions
    _config_instance     \* config.py: the module's global _config_instance

vars == <<required_tags, results, cloud, remediation_rules, remediations,
          call, retval, now, sub_idx, _config_instance>>

----------------------------------------------------------------------------
(* Bounds of the model *)

MaxClock == 1
MaxRemediations == 2
MaxVerdicts == 3
MaxRules == 2
\* resource groups of the verdicts of SpecTop
MaxGroups == 12
\* entries of the tags list and of the rules list of a policy file
MaxEntries == 2
\* the largest resource count given to format_compliance_message
MaxCount == 2

----------------------------------------------------------------------------
(* Python values *)

NoneVal == [none |-> TRUE]

EmptyDict == <<>>

Raised(exc) == [raised |-> exc]

PyTrue == [bool |-> TRUE]

PyFalse == [bool |-> FALSE]

IsRaised(v) == DOMAIN v = {"raised"}

\* bool(x) is False for None and for an empty dict or list
Falsy(x) == x = NoneVal \/ x = EmptyDict

\* x or y
Or(x, y) == IF Falsy(x) THEN y ELSE x

\* d.get(k, default)
Get(d, k, default) == IF k \in DOMAIN d THEN d[k] ELSE default

\* {**a, **b}: the keys of both, the value of b where both have the key
Merge(a, b) == [k \in (DOMAIN a) \cup (DOMAIN b) |->
                   IF k \in DOMAIN b THEN b[k] ELSE a[k]]

RECURSIVE SplitFrom(_, _, _)
\* s.split('/') from token i on, cur being the segment read so far
SplitFrom(s, i, cur) ==
    IF i > Len(s) THEN <<cur>>
    ELSE IF s[i] = "/" THEN <<cur>> \o SplitFrom(s, i + 1, "")
    ELSE SplitFrom(s, i + 1, s[i])

\* s.split('/')
Split(s) == SplitFrom(s, 1, "")

----------------------------------------------------------------------------
(* The values the model draws its inputs from *)

TagKeys == {"Environment", "CostCenter", "Owner"}

TagValues == {"Dev", "Unknown"}

Dicts == UNION {[K -> TagValues] : K \in SUBSET TagKeys}

\* ids of the form /subscriptions/<sub>/resourceGroups/<group>/<name>, and IdFull
\* of the full form .../providers/<namespace>/<type>/<name>
IdVm1 == <<"/", "subscriptions", "/", "sub1", "/", "resourceGroups", "/", "rg-a", "/", "vm1">>

IdSt1 == <<"/", "subscriptions", "/", "sub1", "/", "resourceGroups", "/", "rg-b", "/", "st1">>

IdVm2 == <<"/", "subscriptions", "/", "sub2", "/", "resourceGroups", "/", "rg-a", "/", "vm2">>

IdFull == <<"/", "subscriptions", "/", "test-sub", "/", "resourceGroups", "/", "test-rg",
            "/", "providers", "/", "Microsoft.Compute", "/", "virtualMachines", "/", "test-vm">>

\* an id with fewer than five segments, and one without any separator
IdShort == <<"/", "subscriptions", "/", "sub2">>

IdBare == <<"id1">>

\* an id that ends with the separator after resourceGroups, and a path of five
\* segments that is no Azure id
IdTrail == <<"/", "subscriptions", "/", "sub1", "/", "resourceGroups", "/">>

IdPath == <<"a", "/", "b", "/", "c", "/", "d", "/", "e">>

TypeVm == "Microsoft.Compute/virtualMachines"

TypeSt == "Microsoft.Storage/storageAccounts"

Subscriptions == <<"sub1", "sub2">>

----------------------------------------------------------------------------
(* ComplianceResult and check_resource_compliance *)

\* the fields of the dataclass, in its order: id, name, type, group, subscription,
\* current_tags, missing_tags, compliance_status, timestamp, and the default cost
ComplianceResult(id, name, type, group, sub, current, missing, status, time) ==
    [resource_id |-> id, resource_name |-> name, resource_type |-> type,
     resource_group |-> group, subscription_id |-> sub, current_tags |-> current,
     missing_tags |-> missing, compliance_status |-> status, timestamp |-> time,
     estimated_monthly_cost |-> 0]

\* resource.get('tags', {}) or {}
current_tags_of(resource) == Or(Get(resource, "tags", EmptyDict), EmptyDict)

\* mutant: the comprehension's test without its "not"
missing_tags_of_present(tags, current_tags) ==
    SelectSeq(tags, LAMBDA tag : tag \in DOMAIN current_tags)

\* [tag for tag in self.required_tags if tag not in current_tags]
missing_tags_of(tags, current_tags) ==
    SelectSeq(tags, LAMBDA tag : tag \notin DOMAIN current_tags)

\* mutant: a resource that misses nothing is reported as remediated
compliance_status_remediated(missing_tags) ==
    IF missing_tags = <<>> THEN "remediated" ELSE "non_compliant"

\* mutant: the two statuses the wrong way round
compliance_status_inverted(missing_tags) ==
    IF missing_tags = <<>> THEN "non_compliant" ELSE "compliant"

\* 'compliant' if not missing_tags else 'non_compliant'
compliance_status_of(missing_tags) ==
    IF missing_tags = <<>> THEN "compliant" ELSE "non_compliant"

\* mutant: the element at index 3
resource_group_of_index_3(id) ==
    IF Len(Split(id)) > 3 THEN Split(id)[4] ELSE "unknown"

\* resource['id'].split('/')[4] if len(resource['id'].split('/')) > 4 else 'unknown'
resource_group_of(id) ==
    IF Len(Split(id)) > 4 THEN Split(id)[5] ELSE "unknown"

\* resource['id'], resource['name'], resource['type'] raise KeyError on a missing key
check_resource_compliance(tags, resource, subscription_id, time) ==
    LET current_tags == current_tags_of(resource)
        missing_tags == missing_tags_of(tags, current_tags)
    IN  IF ~ ({"id", "name", "type"} \subseteq DOMAIN resource)
        THEN Raised("KeyError")
        ELSE ComplianceResult(resource.id, resource.name, resource.type,
                              resource_group_of(resource.id), subscription_id,
                              current_tags, missing_tags,
                              compliance_status_of(missing_tags), time)

----------------------------------------------------------------------------
(* Evaluation of one resource, for every resource dict and required-tag list *)

Ids == {IdVm1, IdSt1, IdFull, IdShort, IdBare, IdTrail, IdPath}

\* the lists of required tag names: every ordering of every subset of TagKeys,
\* and a list that names a tag twice
ReqTagLists ==
    {<<>>} \cup {<<a>> : a \in TagKeys}
    \cup {<<a, b>> : a \in TagKeys, b \in TagKeys}
    \cup {<<a, b, c>> \in TagKeys \X TagKeys \X TagKeys : a # b /\ b # c /\ a # c}

\* resource dicts as resource.as_dict() gives them: with a tags mapping, with
\* tags None, without the tags key, and without id, name or type
ResourceDicts ==
    {[id |-> i, name |-> "res", type |-> t, tags |-> g] :
        i \in Ids, t \in {TypeVm, TypeSt}, g \in Dicts \cup {NoneVal}}
    \cup {[id |-> i, name |-> "res", type |-> t] : i \in Ids, t \in {TypeVm, TypeSt}}
    \cup {[name |-> "res", type |-> TypeVm, tags |-> g] : g \in {NoneVal, EmptyDict}}
    \cup {[id |-> IdVm1, type |-> TypeVm], [id |-> IdVm1, name |-> "res"]}

NoCall == [op |-> "none"]

InitEval ==
    /\ required_tags \in ReqTagLists
    /\ results = <<>>
    /\ cloud = [s \in {} |-> <<>>]
    /\ remediation_rules = <<>>
    /\ remediations = 0
    /\ call = NoCall
    /\ retval = NoneVal
    /\ now = 0
    /\ sub_idx = 1
    /\ _config_instance = NoneVal

\* datetime.utcnow() moves on between two calls
Tick ==
    /\ now < MaxClock
    /\ now' = now + 1
    /\ UNCHANGED <<required_tags, results, cloud, remediation_rules, remediations,
                   call, retval, sub_idx, _config_instance>>

\* one call of check_resource_compliance on a checker that did nothing yet
CheckResource ==
    \E resource \in ResourceDicts, subscription_id \in {"sub1", "sub2"} :
        /\ call = NoCall
        /\ call' = [op |-> "check_resource_compliance", resource |-> resource,
                    subscription_id |-> subscription_id]
        /\ retval' = check_resource_compliance(required_tags, resource,
                                               subscription_id, now)
        /\ UNCHANGED <<required_tags, results, cloud, remediation_rules, remediations,
                       now, sub_idx, _config_instance>>

NextEval == CheckResource \/ Tick

SpecEval == InitEval /\ [][NextEval]_vars

RECURSIVE Without(_, _)
\* the elements of the list T that are not in the set keys, in the order of T
Without(T, keys) ==
    IF T = <<>> THEN <<>>
    ELSE (IF Head(T) \in keys THEN <<>> ELSE <<Head(T)>>) \o Without(Tail(T), keys)

\* the keys of the resource's tags, an absent or None tags entry having none
TagKeysOf(resource) ==
    IF "tags" \in DOMAIN resource /\ resource.tags # NoneVal
    THEN DOMAIN resource.tags ELSE {}

\* C1: for a resource dict with id, name and type, check_resource_compliance
\* returns a verdict whose missing_tags is the required tags that are not keys
\* of the resource's tags, in the order of the required tags; with tags absent,
\* None or empty, missing_tags is the whole list of required tags.
C1_MissingTags ==
    (call.op = "check_resource_compliance"
        /\ {"id", "name", "type"} \subseteq DOMAIN call.resource)
    => /\ ~ IsRaised(retval)
       /\ retval.missing_tags = Without(required_tags, TagKeysOf(call.resource))
       /\ ("tags" \notin DOMAIN call.resource
             \/ call.resource.tags = NoneVal
             \/ call.resource.tags = EmptyDict)
          => retval.missing_tags = required_tags

\* C1 witness: tags {Environment, Owner} against the required tags
\* [Environment, CostCenter, Owner] gives missing_tags [CostCenter]
C1_Witness ==
    /\ call.op = "check_resource_compliance"
    /\ {"id", "name", "type", "tags"} \subseteq DOMAIN call.resource
    /\ call.resource.tags # NoneVal
    /\ DOMAIN call.resource.tags = {"Environment", "Owner"}
    /\ required_tags = <<"Environment", "CostCenter", "Owner">>
    /\ retval.missing_tags = <<"CostCenter">>

\* the positions of the separators in the id
Separators(id) == {i \in 1..Len(id) : id[i] = "/"}

\* C16: the resource_group of a verdict is what stands in the id after its
\* fourth '/' and before the next one, the element at index 4 of the split id
\* (G for /subscriptions/S/resourceGroups/G/...), and 'unknown' for an id with
\* fewer than four separators.
C16_ResourceGroup ==
    (call.op = "check_resource_compliance" /\ ~ IsRaised(retval)) =>
        LET id == call.resource.id
            fourth == CHOOSE i \in Separators(id) :
                          Cardinality({j \in Separators(id) : j < i}) = 3
        IN  /\ Cardinality(Separators(id)) < 4 => retval.resource_group = "unknown"
            /\ Cardinality(Separators(id)) >= 4 =>
                   retval.resource_group
                       = (IF fourth < Len(id) /\ id[fourth + 1] # "/"
                          THEN id[fourth + 1] ELSE "")
            /\ id = IdVm1 => retval.resource_group = "rg-a"

\* C16 witness: the verdict of the resource of the test suite, in test-rg
C16_Witness ==
    /\ call.op = "check_resource_compliance"
    /\ ~ IsRaised(retval)
    /\ call.resource.id = IdFull
    /\ retval.resource_group = "test-rg"

\* C23 (as claimed): check_resource_compliance raises for no resource dict,
\* also not for one without id, name or type: it returns a verdict.
C23_NeverRaises ==
    call.op = "check_resource_compliance" =>
        /\ ~ IsRaised(retval)
        /\ "compliance_status" \in DOMAIN retval

----------------------------------------------------------------------------
(* RemediationRule and Config.get_remediation_rule *)

RemediationRule(resource_type, action, default_tags, enabled) ==
    [resource_type |-> resource_type, action |-> action,
     default_tags |-> default_tags, enabled |-> enabled]

RECURSIVE FirstRule(_, _, _)
\* for rule in rules[i:]: if rule.resource_type == resource_type and rule.enabled: return rule
FirstRule(rules, i, resource_type) ==
    IF i > Len(rules) THEN NoneVal
    ELSE IF rules[i].resource_type = resource_type /\ rules[i].enabled THEN rules[i]
    ELSE FirstRule(rules, i + 1, resource_type)

RECURSIVE FirstRuleEither(_, _, _)
\* mutant: one loop that takes the first enabled rule matching exactly or by wildcard
FirstRuleEither(rules, i, resource_type) ==
    IF i > Len(rules) THEN NoneVal
    ELSE IF rules[i].resource_type \in {resource_type, "*"} /\ rules[i].enabled
         THEN rules[i]
    ELSE FirstRuleEither(rules, i + 1, resource_type)

get_remediation_rule_one_loop(rules, resource_type) ==
    FirstRuleEither(rules, 1, resource_type)

\* the exact match first, then the wildcard match, then None
get_remediation_rule(rules, resource_type) ==
    LET exact == FirstRule(rules, 1, resource_type)
    IN  IF exact # NoneVal THEN exact ELSE FirstRule(rules, 1, "*")

----------------------------------------------------------------------------
(* Rule lookup, for every rule list and resource type *)

TypeNet == "Microsoft.Network/virtualNetworks"

Actions == {"add_tags", "update_tags", "notify_only"}

DefaultTagSets == {[Environment |-> "Unknown"],
                   [Environment |-> "Unknown", CostCenter |-> "Unknown"]}

Rules == {RemediationRule(t, a, d, e) :
             t \in {TypeVm, TypeSt, "*"}, a \in Actions,
             d \in DefaultTagSets, e \in BOOLEAN}

RuleLists == UNION {[1..n -> Rules] : n \in 0..MaxRules}

InitRule ==
    /\ required_tags = <<>>
    /\ results = <<>>
    /\ cloud = [s \in {} |-> <<>>]
    /\ remediation_rules \in RuleLists
    /\ remediations = 0
    /\ call = NoCall
    /\ retval = NoneVal
    /\ now = 0
    /\ sub_idx = 1
    /\ _config_instance = NoneVal

\* one call of get_remediation_rule
GetRemediationRule ==
    \E resource_type \in {TypeVm, TypeSt, TypeNet, "*"} :
        /\ call = NoCall
        /\ call' = [op |-> "get_remediation_rule", resource_type |-> resource_type]
        /\ retval' = get_remediation_rule(remediation_rules, resource_type)
        /\ UNCHANGED <<required_tags, results, cloud, remediation_rules, remediations,
                       now, sub_idx, _config_instance>>

NextRule == GetRemediationRule

SpecRule == InitRule /\ [][NextRule]_vars

\* the positions of the enabled rules of the list whose resource_type is t
EnabledAt(rules, t) ==
    {i \in 1..Len(rules) : rules[i].enabled /\ rules[i].resource_type = t}

Least(S) == CHOOSE i \in S : \A j \in S : i <= j

\* C5: get_remediation_rule(t) returns the first enabled rule whose resource_type
\* is t; without one, the first enabled rule whose resource_type is '*'; without
\* one either, None. A rule returned is never disabled.
C5_RuleLookup ==
    call.op = "get_remediation_rule" =>
        LET exact == EnabledAt(remediation_rules, call.resource_type)
            wild == EnabledAt(remediation_rules, "*")
        IN  /\ exact # {} => retval = remediation_rules[Least(exact)]
            /\ (exact = {} /\ wild # {}) => retval = remediation_rules[Least(wild)]
            /\ (exact = {} /\ wild = {}) => retval = NoneVal
            /\ retval # NoneVal => retval.enabled

\* C5 witness: an enabled exact rule is returned although an enabled wildcard
\* rule comes before it in the list
C5_Witness ==
    /\ call.op = "get_remediation_rule"
    /\ Len(remediation_rules) >= 2
    /\ remediation_rules[1].resource_type = "*"
    /\ remediation_rules[1].enabled
    /\ call.resource_type = TypeSt
    /\ retval = remediation_rules[2]
    /\ retval # remediation_rules[1]

----------------------------------------------------------------------------
(* generate_compliance_report *)

\* len(df[df['compliance_status'] == status])
StatusCount(verdicts, status) ==
    Cardinality({i \in 1..Len(verdicts) : verdicts[i].compliance_status = status})

RECURSIVE GCD(_, _)
GCD(a, b) == IF b = 0 THEN a ELSE GCD(b, a % b)

\* the float n / d, for d > 0
Frac(n, d) == IF n = 0 THEN <<0, 1>> ELSE <<n \div GCD(n, d), d \div GCD(n, d)>>

\* round(n / d, 2) in hundredths: to the nearest hundredth, a tie to the even one.
\* For the rates of this model (a count over a total below 32, times 100) no
\* tie occurs and the float has the same nearest hundredth as the fraction.
Round2(n, d) ==
    LET q == (100 * n) \div d
        r == (100 * n) % d
    IN  IF 2 * r < d THEN q
        ELSE IF 2 * r > d THEN q + 1
        ELSE IF q % 2 = 0 THEN q ELSE q + 1

\* mutant: 'remediated' verdicts counted as compliant in the rate
overall_compliance_rate_with_remediated(verdicts) ==
    IF Len(verdicts) > 0
    THEN Round2((StatusCount(verdicts, "compliant") + StatusCount(verdicts, "remediated"))
                * 100, Len(verdicts))
    ELSE 0

\* round((compliant_resources / total_resources * 100) if total_resources > 0 else 0, 2)
overall_compliance_rate_of(verdicts) ==
    IF Len(verdicts) > 0
    THEN Round2(StatusCount(verdicts, "compliant") * 100, Len(verdicts))
    ELSE 0

\* mutant: every verdict that is not compliant counted as non_compliant
summary_with_rest_non_compliant(verdicts) ==
    [total_resources |-> Len(verdicts),
     compliant |-> StatusCount(verdicts, "compliant"),
     non_compliant |-> Len(verdicts) - StatusCount(verdicts, "compliant"),
     remediated |-> StatusCount(verdicts, "remediated"),
     overall_compliance_rate |-> overall_compliance_rate_of(verdicts)]

\* the summary of a non-empty collection
summary_of(verdicts) ==
    [total_resources |-> Len(verdicts),
     compliant |-> StatusCount(verdicts, "compliant"),
     non_compliant |-> StatusCount(verdicts, "non_compliant"),
     remediated |-> StatusCount(verdicts, "remediated"),
     overall_compliance_rate |-> overall_compliance_rate_of(verdicts)]

\* mutant: missing_count counts the entries of missing_tags that name the tag,
\* not the verdicts that have one
tag_statistics_of_occurrences(verdicts, tags) ==
    [tag \in {tags[i] : i \in 1..Len(tags)} |->
        LET missing_count ==
                Cardinality({p \in (1..Len(verdicts)) \X (1..Len(tags)) :
                                /\ p[2] <= Len(verdicts[p[1]].missing_tags)
                                /\ verdicts[p[1]].missing_tags[p[2]] = tag})
        IN  [missing_count |-> missing_count,
             compliance_rate |->
                 IF Len(verdicts) > 0
                 THEN Frac((Len(verdicts) - missing_count) * 100, Len(verdicts))
                 ELSE <<0, 1>>]]

\* mutant: only the verdicts of status 'non_compliant' counted as missing a tag
tag_statistics_of_non_compliant(verdicts, tags) ==
    [tag \in {tags[i] : i \in 1..Len(tags)} |->
        LET missing_count ==
                Cardinality({i \in 1..Len(verdicts) :
                                /\ verdicts[i].compliance_status = "non_compliant"
                                /\ \E j \in 1..Len(verdicts[i].missing_tags) :
                                       verdicts[i].missing_tags[j] = tag})
        IN  [missing_count |-> missing_count,
             compliance_rate |->
                 IF Len(verdicts) > 0
                 THEN Frac((Len(verdicts) - missing_count) * 100, Len(verdicts))
                 ELSE <<0, 1>>]]

\* tag_statistics[tag] for every tag of self.required_tags
tag_statistics_of(verdicts, tags) ==
    [tag \in {tags[i] : i \in 1..Len(tags)} |->
        LET missing_count ==
                Cardinality({i \in 1..Len(verdicts) :
                                \E j \in 1..Len(verdicts[i].missing_tags) :
                                    verdicts[i].missing_tags[j] = tag})
        IN  [missing_count |-> missing_count,
             compliance_rate |->
                 IF Len(verdicts) > 0
                 THEN Frac((Len(verdicts) - missing_count) * 100, Len(verdicts))
                 ELSE <<0, 1>>]]

\* mutant: a count, zero too, for every resource type with every status that occurs
type_breakdown_with_zeros(verdicts) ==
    [p \in {verdicts[i].resource_type : i \in 1..Len(verdicts)}
            \X {verdicts[i].compliance_status : i \in 1..Len(verdicts)} |->
        Cardinality({i \in 1..Len(verdicts) :
                        /\ verdicts[i].resource_type = p[1]
                        /\ verdicts[i].compliance_status = p[2]})]

\* df.groupby('resource_type')['compliance_status'].value_counts().to_dict():
\* a count for every (resource_type, compliance_status) pair that occurs
type_breakdown_of(verdicts) ==
    [p \in {<<verdicts[i].resource_type, verdicts[i].compliance_status>> :
               i \in 1..Len(verdicts)} |->
        Cardinality({i \in 1..Len(verdicts) :
                        /\ verdicts[i].resource_type = p[1]
                        /\ verdicts[i].compliance_status = p[2]})]

\* df[df['compliance_status'] == 'non_compliant'].groupby('resource_group').size()
violations_of(verdicts) ==
    [g \in {verdicts[i].resource_group :
               i \in {j \in 1..Len(verdicts) :
                         verdicts[j].compliance_status = "non_compliant"}} |->
        Cardinality({i \in 1..Len(verdicts) :
                        /\ verdicts[i].compliance_status = "non_compliant"
                        /\ verdicts[i].resource_group = g})]

RECURSIVE SortedFrom(_, _)
\* the orders of the groups of rest by descending size, a group of the largest
\* size first, any one of them
SortedFrom(size, rest) ==
    IF rest = {} THEN {<<>>}
    ELSE LET sizes == {size[g] : g \in rest}
             most == CHOOSE m \in sizes : \A k \in sizes : m >= k
             largest == {g \in rest : size[g] = most}
         IN  UNION {{<<g>> \o order : order \in SortedFrom(size, rest \ {g})} :
                       g \in largest}

\* .sort_values(ascending=False): the orders of the groups by descending count.
\* sort_values sorts with quicksort, which is not stable, so groups of equal
\* count may come in any order.
SortedGroups(verdicts) ==
    SortedFrom(violations_of(verdicts), DOMAIN violations_of(verdicts))

TopN == 10

\* mutant: .tail(10), the last ten groups of the order
top_violators_tail(verdicts, order) ==
    LET size == violations_of(verdicts)
        n == IF Len(order) < TopN THEN Len(order) ELSE TopN
    IN  [i \in 1..n |-> <<order[Len(order) - n + i], size[order[Len(order) - n + i]]>>]

\* .head(10).to_dict(): the first ten groups of the order, each with its count
top_violators_of(verdicts, order) ==
    LET size == violations_of(verdicts)
        n == IF Len(order) < TopN THEN Len(order) ELSE TopN
    IN  [i \in 1..n |-> <<order[i], size[order[i]]>>]

\* mutant: no branch for the empty DataFrame, whose columns do not exist
empty_report_raises(time) == Raised("KeyError")

\* mutant: the report of an empty DataFrame has the timestamp and the summary only
empty_report_summary_only(time) ==
    [scan_timestamp |-> time,
     summary |-> [total_resources |-> 0, compliant |-> 0, non_compliant |-> 0,
                  remediated |-> 0, overall_compliance_rate |-> 0]]

\* the report returned if df.empty
empty_report(time) ==
    [scan_timestamp |-> time,
     summary |-> [total_resources |-> 0, compliant |-> 0, non_compliant |-> 0,
                  remediated |-> 0, overall_compliance_rate |-> 0],
     tag_statistics |-> EmptyDict,
     resource_type_breakdown |-> EmptyDict,
     top_violators |-> <<>>]

generate_compliance_report(verdicts, tags, time, order) ==
    IF verdicts = <<>>
    THEN empty_report(time)
    ELSE [scan_timestamp |-> time,
          summary |-> summary_of(verdicts),
          tag_statistics |-> tag_statistics_of(verdicts, tags),
          resource_type_breakdown |-> type_breakdown_of(verdicts),
          top_violators |-> top_violators_of(verdicts, order)]

\* mutant: equal counts come in another order at every call
GenerateReportAnyOrder ==
    \E order \in SortedGroups(results) :
        /\ call' = [op |-> "generate_compliance_report", sorted |-> order,
                    repeated |-> call.op = "generate_compliance_report"]
        /\ retval' = generate_compliance_report(results, required_tags, now, order)
        /\ UNCHANGED <<required_tags, results, cloud, remediation_rules, remediations,
                       now, sub_idx, _config_instance>>

\* mutant: the verdicts are consumed by the report
GenerateReportClearing ==
    \E order \in SortedGroups(results) :
        /\ call' = [op |-> "generate_compliance_report", sorted |-> order,
                    repeated |-> call.op = "generate_compliance_report"]
        /\ retval' = generate_compliance_report(results, required_tags, now, order)
        /\ results' = <<>>
        /\ UNCHANGED <<required_tags, cloud, remediation_rules, remediations,
                       now, sub_idx, _config_instance>>

\* checker.generate_compliance_report(). The record of the call keeps the order
\* sort_values gave and whether the call before was a report too: the sort is
\* a function of the Series it is given, so a report made right after a
\* report, of the same counts, has the same order.
GenerateReport ==
    \E order \in IF call.op = "generate_compliance_report"
                     /\ call.sorted \in SortedGroups(results)
                  THEN {call.sorted}
                  ELSE SortedGroups(results) :
        /\ call' = [op |-> "generate_compliance_report", sorted |-> order,
                    repeated |-> call.op = "generate_compliance_report"]
        /\ retval' = generate_compliance_report(results, required_tags, now, order)
        /\ UNCHANGED <<required_tags, results, cloud, remediation_rules, remediations,
                       now, sub_idx, _config_instance>>

----------------------------------------------------------------------------
(* The report, for every collection of verdicts assigned to checker.results *)

\* verdicts as a caller may store them: of either type, in either group,
\* compliant, non_compliant with one or two tags missing, or remediated
AggVerdicts ==
    {ComplianceResult(IdBare, "vm1", t, g, "sub1", EmptyDict, m[1], m[2], 0) :
        t \in {TypeVm, TypeSt}, g \in {"rg-a", "rg-b"},
        m \in {<<<<>>, "compliant">>,
               <<<<"CostCenter">>, "non_compliant">>,
               <<<<"CostCenter", "Owner">>, "non_compliant">>,
               <<<<"CostCenter">>, "remediated">>}}

InitAgg ==
    /\ required_tags = <<"Environment", "CostCenter", "Owner">>
    /\ results \in UNION {[1..n -> AggVerdicts] : n \in 0..MaxVerdicts}
    /\ cloud = [s \in {} |-> <<>>]
    /\ remediation_rules = <<>>
    /\ remediations = 0
    /\ call = NoCall
    /\ retval = NoneVal
    /\ now = 0
    /\ sub_idx = 1
    /\ _config_instance = NoneVal

NextAgg == GenerateReport \/ Tick

SpecAgg == InitAgg /\ [][NextAgg]_vars

RECURSIVE Tally(_, _)
\* how many verdicts of the list have the status
Tally(verdicts, status) ==
    IF verdicts = <<>> THEN 0
    ELSE (IF Head(verdicts).compliance_status = status THEN 1 ELSE 0)
         + Tally(Tail(verdicts), status)

\* C8: in every report, total_resources is the number of verdicts and compliant,
\* non_compliant and remediated are the numbers of verdicts with that status.
C8_SummaryCounts ==
    call.op = "generate_compliance_report" =>
        /\ retval.summary.total_resources = Len(results)
        /\ retval.summary.compliant = Tally(results, "compliant")
        /\ retval.summary.non_compliant = Tally(results, "non_compliant")
        /\ retval.summary.remediated = Tally(results, "remediated")

\* C8 witness: a report over verdicts of all three statuses
C8_Witness ==
    /\ call.op = "generate_compliance_report"
    /\ retval.summary.total_resources = 3
    /\ retval.summary.compliant = 1
    /\ retval.summary.non_compliant = 1
    /\ retval.summary.remediated = 1

\* C9: overall_compliance_rate is compliant/total*100 to the nearest hundredth,
\* the compliant verdicts being those of status 'compliant' only; it is 0 for
\* no verdicts, and 50.0 for 1 compliant verdict out of 2.
C9_OverallRate ==
    call.op = "generate_compliance_report" =>
        LET total == Len(results)
            compliant == Tally(results, "compliant")
            rate == retval.summary.overall_compliance_rate
            error == rate * total - 10000 * compliant
        IN  /\ total = 0 => rate = 0
            /\ total > 0 => (2 * error <= total /\ 2 * error >= - total)
            /\ (total = 2 /\ compliant = 1) => rate = 5000

\* C9 witness: of three verdicts one is compliant and one remediated: 33.33
C9_Witness ==
    /\ call.op = "generate_compliance_report"
    /\ Len(results) = 3
    /\ Tally(results, "compliant") = 1
    /\ Tally(results, "remediated") = 1
    /\ retval.summary.overall_compliance_rate = 3333

\* C10: the report of an empty collection is returned, not raised, and its
\* summary is all zero.
C10_EmptyReport ==
    (call.op = "generate_compliance_report" /\ results = <<>>) =>
        /\ ~ IsRaised(retval)
        /\ retval.summary = [total_resources |-> 0, compliant |-> 0,
                             non_compliant |-> 0, remediated |-> 0,
                             overall_compliance_rate |-> 0]

\* C10 witness: a report made of an empty checker.results
C10_Witness ==
    /\ call.op = "generate_compliance_report"
    /\ results = <<>>
    /\ retval.summary.total_resources = 0

\* C11: in every report, of an empty collection or not, the keys of
\* tag_statistics are the required tag names, and in the report of an empty
\* collection every required tag has missing_count 0.
C11_TagStatisticsKeys ==
    call.op = "generate_compliance_report" =>
        /\ DOMAIN retval.tag_statistics = {required_tags[i] : i \in 1..Len(required_tags)}
        /\ results = <<>> =>
               \A i \in 1..Len(required_tags) :
                   retval.tag_statistics[required_tags[i]].missing_count = 0

RECURSIVE MissingTally(_, _)
\* how many verdicts of the list name the tag in missing_tags
MissingTally(verdicts, tag) ==
    IF verdicts = <<>> THEN 0
    ELSE (IF tag \in {Head(verdicts).missing_tags[j] :
                         j \in 1..Len(Head(verdicts).missing_tags)} THEN 1 ELSE 0)
         + MissingTally(Tail(verdicts), tag)

\* C12: in the report of a non-empty collection, for every required tag g,
\* missing_count is the number of verdicts whose missing_tags contains g and
\* compliance_rate is (total - missing_count) / total * 100.
C12_TagStatistics ==
    (call.op = "generate_compliance_report" /\ results # <<>>) =>
        \A i \in 1..Len(required_tags) :
            LET g == required_tags[i]
                total == Len(results)
                stat == retval.tag_statistics[g]
            IN  /\ g \in DOMAIN retval.tag_statistics
                /\ stat.missing_count = MissingTally(results, g)
                /\ stat.compliance_rate[1] * total
                       = (total - MissingTally(results, g)) * 100 * stat.compliance_rate[2]
                /\ stat.compliance_rate[2] > 0

\* C12 witness: of three verdicts two miss CostCenter, one of them remediated,
\* and one of them misses Owner too: rates 33.33.. and 66.66..
C12_Witness ==
    /\ call.op = "generate_compliance_report"
    /\ Len(results) = 3
    /\ Tally(results, "remediated") = 1
    /\ retval.tag_statistics["CostCenter"] = [missing_count |-> 2, compliance_rate |-> <<100, 3>>]
    /\ retval.tag_statistics["Owner"] = [missing_count |-> 1, compliance_rate |-> <<200, 3>>]
    /\ retval.tag_statistics["Environment"] = [missing_count |-> 0, compliance_rate |-> <<100, 1>>]

RECURSIVE PairTally(_, _, _)
\* how many verdicts of the list have the resource type and the status
PairTally(verdicts, type, status) ==
    IF verdicts = <<>> THEN 0
    ELSE (IF Head(verdicts).resource_type = type
             /\ Head(verdicts).compliance_status = status THEN 1 ELSE 0)
         + PairTally(Tail(verdicts), type, status)

RECURSIVE SumOver(_, _)
\* the sum of f over the keys S
SumOver(f, S) ==
    IF S = {} THEN 0
    ELSE LET k == CHOOSE k \in S : TRUE IN f[k] + SumOver(f, S \ {k})

\* C15: resource_type_breakdown has an entry for a (resource type, status)
\* pair exactly if a verdict has that pair, the entry is the number of such
\* verdicts, and the entries add up to total_resources.
C15_TypeBreakdown ==
    call.op = "generate_compliance_report" =>
        LET breakdown == retval.resource_type_breakdown
        IN  /\ \A p \in DOMAIN breakdown :
                   /\ breakdown[p] = PairTally(results, p[1], p[2])
                   /\ breakdown[p] >= 1
            /\ \A i \in 1..Len(results) :
                   <<results[i].resource_type, results[i].compliance_status>>
                       \in DOMAIN breakdown
            /\ SumOver(breakdown, DOMAIN breakdown) = retval.summary.total_resources

\* C15 witness: two compliant virtual machines and a non_compliant storage
\* account make two entries
C15_Witness ==
    /\ call.op = "generate_compliance_report"
    /\ Len(results) = 3
    /\ DOMAIN retval.resource_type_breakdown
           = {<<TypeVm, "compliant">>, <<TypeSt, "non_compliant">>}
    /\ retval.resource_type_breakdown[<<TypeVm, "compliant">>] = 2
    /\ retval.resource_type_breakdown[<<TypeSt, "non_compliant">>] = 1

\* C19: every report, of an empty collection or not, has the keys
\* scan_timestamp, summary, tag_statistics, resource_type_breakdown and
\* top_violators, and its summary the keys total_resources, compliant,
\* non_compliant, remediated and overall_compliance_rate; a part with nothing
\* in it is there as an empty mapping.
C19_ReportShape ==
    call.op = "generate_compliance_report" =>
        /\ DOMAIN retval = {"scan_timestamp", "summary", "tag_statistics",
                            "resource_type_breakdown", "top_violators"}
        /\ DOMAIN retval.summary = {"total_resources", "compliant", "non_compliant",
                                    "remediated", "overall_compliance_rate"}
        /\ results = <<>> => /\ retval.tag_statistics = EmptyDict
                             /\ retval.resource_type_breakdown = EmptyDict
        /\ Tally(results, "non_compliant") = 0 => retval.top_violators = EmptyDict

\* C19 witness: a report of verdicts none of which is non_compliant: the
\* statistics and the breakdown are filled, top_violators is the empty mapping
C19_Witness ==
    /\ call.op = "generate_compliance_report"
    /\ Len(results) = 2
    /\ Tally(results, "non_compliant") = 0
    /\ DOMAIN retval.tag_statistics = {"Environment", "CostCenter", "Owner"}
    /\ retval.resource_type_breakdown # EmptyDict
    /\ retval.top_violators = EmptyDict
    /\ "top_violators" \in DOMAIN retval

----------------------------------------------------------------------------
(* The report of verdicts over more resource groups than top_violators holds *)

\* resource group names, in alphabetical order
GroupNames ==
    <<"rg-01", "rg-02", "rg-03", "rg-04", "rg-05", "rg-06", "rg-07",
      "rg-08", "rg-09", "rg-10", "rg-11", "rg-12", "rg-13">>

RECURSIVE Repeat(_, _)
\* [v] * n
Repeat(v, n) == IF n = 0 THEN <<>> ELSE <<v>> \o Repeat(v, n - 1)

\* a verdict of the group with the status
TopVerdict(g, status) ==
    ComplianceResult(IdBare, "vm1", TypeVm, g, "sub1", EmptyDict,
                     IF status = "compliant" THEN <<>> ELSE <<"CostCenter">>, status, 0)

\* the verdicts of group i: (i + shift) / 2 non_compliant ones, so that groups
\* come in pairs of equal count, a compliant one in every other group and a
\* remediated one in every third
GroupVerdicts(i, shift) ==
    Repeat(TopVerdict(GroupNames[i], "non_compliant"), (i + shift) \div 2)
    \o (IF i % 2 = 1 THEN <<TopVerdict(GroupNames[i], "compliant")>> ELSE <<>>)
    \o (IF i % 3 = 0 THEN <<TopVerdict(GroupNames[i], "remediated")>> ELSE <<>>)

RECURSIVE TopResults(_, _, _, _)
\* the verdicts of the groups i..n, in ascending or in descending order of group
TopResults(i, n, shift, descending) ==
    IF i > n THEN <<>>
    ELSE IF descending
         THEN TopResults(i + 1, n, shift, descending) \o GroupVerdicts(i, shift)
         ELSE GroupVerdicts(i, shift) \o TopResults(i + 1, n, shift, descending)

InitTop ==
    /\ required_tags = <<"Environment", "CostCenter", "Owner">>
    /\ results \in {TopResults(1, n, shift, descending) :
                       n \in (MaxGroups - 3)..MaxGroups, shift \in {0, 1},
                       descending \in BOOLEAN}
    /\ cloud = [s \in {} |-> <<>>]
    /\ remediation_rules = <<>>
    /\ remediations = 0
    /\ call = NoCall
    /\ retval = NoneVal
    /\ now = 0
    /\ sub_idx = 1
    /\ _config_instance = NoneVal

SpecTop == InitTop /\ [][NextAgg]_vars

RECURSIVE GroupTally(_, _)
\* how many verdicts of the list are non_compliant ones of the group
GroupTally(verdicts, g) ==
    IF verdicts = <<>> THEN 0
    ELSE (IF Head(verdicts).compliance_status = "non_compliant"
             /\ Head(verdicts).resource_group = g THEN 1 ELSE 0)
         + GroupTally(Tail(verdicts), g)

\* the resource groups of the verdicts
GroupsOf(verdicts) == {verdicts[i].resource_group : i \in 1..Len(verdicts)}

\* the resource groups top_violators lists
Listed(top) == {top[i][1] : i \in 1..Len(top)}

\* C13: top_violators lists only groups with a non_compliant verdict, each once
\* and with its number of non_compliant verdicts, at most ten of them, in
\* descending order of that number, and no group it leaves out has a larger
\* number than one it lists.
C13_TopViolators ==
    call.op = "generate_compliance_report" =>
        LET top == retval.top_violators
        IN  /\ Len(top) <= 10
            /\ \A i \in 1..Len(top) :
                   /\ top[i][2] = GroupTally(results, top[i][1])
                   /\ top[i][2] >= 1
            /\ \A i, j \in 1..Len(top) : i # j => top[i][1] # top[j][1]
            /\ \A i, j \in 1..Len(top) : i < j => top[i][2] >= top[j][2]
            /\ \A g \in GroupsOf(results) \ Listed(top) :
                   \A i \in 1..Len(top) : GroupTally(results, g) <= top[i][2]

\* C13 witness: eleven groups have non_compliant verdicts and one has none; ten
\* are listed, the group of six verdicts first, a group of one verdict is cut
C13_Witness ==
    /\ call.op = "generate_compliance_report"
    /\ Cardinality({g \in GroupsOf(results) : GroupTally(results, g) >= 1}) = 11
    /\ GroupTally(results, "rg-01") = 0
    /\ Len(retval.top_violators) = 10
    /\ retval.top_violators[1] = <<"rg-12", 6>>
    /\ retval.top_violators[10][2] = 1

\* the place of the group name in alphabetical order
GroupRank(g) == CHOOSE i \in 1..Len(GroupNames) : GroupNames[i] = g

\* C14: of two groups of equal count top_violators lists the alphabetically
\* smaller one first, and where the list is cut at ten the alphabetically
\* smaller one is the one kept.
C14_TiesAlphabetical ==
    call.op = "generate_compliance_report" =>
        LET top == retval.top_violators
        IN  /\ \A i, j \in 1..Len(top) :
                   (i < j /\ top[i][2] = top[j][2])
                       => GroupRank(top[i][1]) < GroupRank(top[j][1])
            /\ \A g \in GroupsOf(results) \ Listed(top) :
                   \A i \in 1..Len(top) :
                       top[i][2] = GroupTally(results, g)
                           => GroupRank(top[i][1]) < GroupRank(g)

C18_ReportFrame ==
    [][(call'.op = "generate_compliance_report" /\ now' = now)
       => (results' = results /\ required_tags' = required_tags)]_vars

\* C18 witness: a report of three verdicts, which are still there
C18_Witness ==
    /\ call.op = "generate_compliance_report"
    /\ retval.summary.total_resources = 3
    /\ Len(results) = 3
    /\ Len(required_tags) = 3
    /\ \E i \in 1..3 : results[i].compliance_status = "remediated"

----------------------------------------------------------------------------
(* scan_subscription *)

RECURSIVE ScanFromSkipping(_, _, _, _, _, _, _)
\* mutant: a resource whose evaluation raises is left out and the loop goes on
ScanFromSkipping(list, i, fail_at, tags, subscription_id, time, subscription_results) ==
    IF i > Len(list) \/ i > fail_at THEN subscription_results
    ELSE LET result == check_resource_compliance(tags, list[i], subscription_id, time)
         IN  ScanFromSkipping(list, i + 1, fail_at, tags, subscription_id, time,
                              IF IsRaised(result) THEN subscription_results
                              ELSE Append(subscription_results, result))

RECURSIVE ScanFrom(_, _, _, _, _, _, _)
\* the loop over resource_client.resources.list() from resource i on: the
\* enumeration raises after yielding fail_at resources, and any exception
\* (also one of check_resource_compliance) ends the scan with the verdicts so far
ScanFrom(list, i, fail_at, tags, subscription_id, time, subscription_results) ==
    IF i > Len(list) \/ i > fail_at THEN subscription_results
    ELSE LET result == check_resource_compliance(tags, list[i], subscription_id, time)
         IN  IF IsRaised(result) THEN subscription_results
             ELSE ScanFrom(list, i + 1, fail_at, tags, subscription_id, time,
                           Append(subscription_results, result))

scan_subscription(cl, tags, subscription_id, fail_at, time) ==
    IF subscription_id \notin DOMAIN cl THEN <<>>
    ELSE ScanFrom(cl[subscription_id], 1, fail_at, tags, subscription_id, time, <<>>)

----------------------------------------------------------------------------
(* The evaluation called directly: check_resource_compliance and            *)
(* scan_subscription on a checker that may hold verdicts already, in any    *)
(* order and any number of times                                            *)

\* the resources of the two subscriptions of ScanCloud: those of the pipeline
\* below, and in the second subscription a resource without name between two
\* complete ones
ScanCloud ==
    [s \in {"sub1", "sub2"} |->
        IF s = "sub1"
        THEN <<[id |-> IdVm1, name |-> "vm1", type |-> TypeVm,
                tags |-> [Environment |-> "Dev"]],
               [id |-> IdSt1, name |-> "st1", type |-> TypeSt, tags |-> NoneVal]>>
        ELSE <<[id |-> IdVm2, name |-> "vm2", type |-> TypeVm,
                tags |-> [Environment |-> "Dev", CostCenter |-> "Dev", Owner |-> "Dev"]],
               [id |-> IdShort, type |-> TypeSt],
               [id |-> IdSt1, name |-> "st1", type |-> TypeSt]>>]

\* verdicts the checker holds before the calls: none, or one of an earlier scan
EarlierResults ==
    {<<>>,
     <<ComplianceResult(IdVm1, "vm1", TypeVm, "rg-a", "sub1", [Environment |-> "Dev"],
                        <<"CostCenter">>, "non_compliant", 0)>>}

InitScan ==
    /\ required_tags \in ReqTagLists
    /\ results \in EarlierResults
    /\ cloud = ScanCloud
    /\ remediation_rules = <<>>
    /\ remediations = 0
    /\ call = NoCall
    /\ retval = NoneVal
    /\ now = 0
    /\ sub_idx = 1
    /\ _config_instance = NoneVal

\* mutant: the evaluation keeps its verdict in checker.results
CheckListedResourceRecording ==
    \E s \in DOMAIN cloud :
      \E i \in 1..Len(cloud[s]) :
        /\ call' = [op |-> "check_resource_compliance", resource |-> cloud[s][i],
                    subscription_id |-> s]
        /\ retval' = check_resource_compliance(required_tags, cloud[s][i], s, now)
        /\ results' = IF IsRaised(retval') THEN results ELSE Append(results, retval')
        /\ UNCHANGED <<required_tags, cloud, remediation_rules, remediations,
                       now, sub_idx, _config_instance>>

\* checker.check_resource_compliance(resource, subscription_id) on a resource
\* of a subscription, at any time and after any other call
CheckListedResource ==
    \E s \in DOMAIN cloud :
      \E i \in 1..Len(cloud[s]) :
        /\ call' = [op |-> "check_resource_compliance", resource |-> cloud[s][i],
                    subscription_id |-> s]
        /\ retval' = check_resource_compliance(required_tags, cloud[s][i], s, now)
        /\ UNCHANGED <<required_tags, results, cloud, remediation_rules, remediations,
                       now, sub_idx, _config_instance>>

\* checker.scan_subscription(subscription_id) called by itself: the verdicts
\* are returned, self.results is not assigned
ScanSubscription ==
    \E subscription_id \in DOMAIN cloud :
      \E fail_at \in 0..Len(cloud[subscription_id]) :
        /\ call' = [op |-> "scan_subscription", subscription_id |-> subscription_id,
                    fail_at |-> fail_at]
        /\ retval' = scan_subscription(cloud, required_tags, subscription_id,
                                       fail_at, now)
        /\ UNCHANGED <<required_tags, results, cloud, remediation_rules, remediations,
                       now, sub_idx, _config_instance>>

NextScan == CheckListedResource \/ ScanSubscription \/ Tick

SpecScan == InitScan /\ [][NextScan]_vars

\* the verdict without its timestamp
Timeless(verdict) ==
    IF IsRaised(verdict) THEN verdict
    ELSE [k \in DOMAIN verdict \ {"timestamp"} |-> verdict[k]]

\* C24: a call of check_resource_compliance or of scan_subscription changes
\* neither checker.results nor required_tags nor the resources it is given,
\* scan_subscription adds nothing to checker.results, and a resource evaluated
\* again, by itself or within a scan, after whatever other calls, gets the
\* verdict it got before, timestamp aside.
C24_EvaluationFrame ==
    [][(call'.op \in {"check_resource_compliance", "scan_subscription"} /\ now' = now)
       => /\ results' = results
          /\ required_tags' = required_tags
          /\ cloud' = cloud
          /\ (call.op = "check_resource_compliance"
                 /\ call'.op = "check_resource_compliance"
                 /\ call'.resource = call.resource
                 /\ call'.subscription_id = call.subscription_id)
                => Timeless(retval') = Timeless(retval)
          /\ (call.op = "check_resource_compliance" /\ ~ IsRaised(retval)
                 /\ call'.op = "scan_subscription")
                => \A i \in 1..Len(retval') :
                       (/\ retval'[i].resource_id = retval.resource_id
                        /\ retval'[i].subscription_id = retval.subscription_id)
                           => Timeless(retval'[i]) = Timeless(retval)]_vars

\* C24 witness: a scan that returned two verdicts, called on a checker that
\* holds one verdict and still holds just that one
C24_Witness ==
    /\ call.op = "scan_subscription"
    /\ Len(retval) = 2
    /\ Len(results) = 1
    /\ results \in EarlierResults

----------------------------------------------------------------------------
(* Remediation: auto_remediate and AzureClient.update_resource_tags *)

\* where Azure holds the resource of this id: <<subscription, position>>
Places(cl, resource_id) ==
    {p \in UNION {{<<s, i>> : i \in 1..Len(cl[s])} : s \in DOMAIN cl} :
        "id" \in DOMAIN cl[p[1]][p[2]] /\ cl[p[1]][p[2]].id = resource_id}

\* the resource dict with its tags replaced
WithTags(resource, tags) ==
    [k \in DOMAIN resource \cup {"tags"} |-> IF k = "tags" THEN tags ELSE resource[k]]

\* update_by_id(resource_id, parameters={'tags': tags}) when it succeeds
UpdateById(cl, resource_id, tags) ==
    [s \in DOMAIN cl |->
        [i \in 1..Len(cl[s]) |->
            IF <<s, i>> \in Places(cl, resource_id)
            THEN WithTags(cl[s][i], tags) ELSE cl[s][i]]]

\* get_by_id(resource_id).tags
TagsById(cl, resource_id) ==
    LET p == CHOOSE q \in Places(cl, resource_id) : TRUE
    IN  Get(cl[p[1]][p[2]], "tags", NoneVal)

Outcomes == {"ok", "read_fails", "write_fails"}

\* what one remediation call did: its result, the tags it read (None if it read
\* none), the tags of every update_by_id call it issued, and Azure afterwards
Attempt(result, read, update_calls, cl) ==
    [result |-> result, read |-> read, update_calls |-> update_calls, cloud |-> cl]

\* mutant: a failed write is tried a second time before the call gives up
auto_remediate_retrying(cl, resource_id, default_tags, outcome) ==
    LET existing == TagsById(cl, resource_id)
        updated_tags == Merge(Or(existing, EmptyDict), default_tags)
    IN  IF Len(Split(resource_id)) < 3 \/ Places(cl, resource_id) = {}
            \/ outcome = "read_fails"
        THEN Attempt(PyFalse, NoneVal, <<>>, cl)
        ELSE IF outcome = "write_fails"
        THEN Attempt(PyFalse, existing, <<updated_tags, updated_tags>>, cl)
        ELSE Attempt(PyTrue, existing, <<updated_tags>>,
                     UpdateById(cl, resource_id, updated_tags))

\* mutant: the exception of a failed write is not caught
auto_remediate_write_uncaught(cl, resource_id, default_tags, outcome) ==
    LET existing == TagsById(cl, resource_id)
        updated_tags == Merge(Or(existing, EmptyDict), default_tags)
    IN  IF Len(Split(resource_id)) < 3 \/ Places(cl, resource_id) = {}
            \/ outcome = "read_fails"
        THEN Attempt(PyFalse, NoneVal, <<>>, cl)
        ELSE IF outcome = "write_fails"
        THEN Attempt(Raised("Exception"), existing, <<updated_tags>>, cl)
        ELSE Attempt(PyTrue, existing, <<updated_tags>>,
                     UpdateById(cl, resource_id, updated_tags))

\* auto_remediate: parts[2] of a short id, a failed read and a failed write all
\* raise inside the try and end in "return False"
auto_remediate(cl, resource_id, default_tags, outcome) ==
    LET existing == TagsById(cl, resource_id)
        updated_tags == Merge(Or(existing, EmptyDict), default_tags)
    IN  IF Len(Split(resource_id)) < 3 \/ Places(cl, resource_id) = {}
            \/ outcome = "read_fails"
        THEN Attempt(PyFalse, NoneVal, <<>>, cl)
        ELSE IF outcome = "write_fails"
        THEN Attempt(PyFalse, existing, <<updated_tags>>, cl)
        ELSE Attempt(PyTrue, existing, <<updated_tags>>,
                     UpdateById(cl, resource_id, updated_tags))

\* update_resource_tags: only AzureError is caught, so parts[2] of a short id
\* raises IndexError to the caller; without merge nothing is read
update_resource_tags(cl, resource_id, tags, merge, outcome) ==
    LET existing == IF merge THEN TagsById(cl, resource_id) ELSE NoneVal
        updated_tags == IF merge THEN Merge(Or(existing, EmptyDict), tags) ELSE tags
    IN  IF Len(Split(resource_id)) < 3
        THEN Attempt(Raised("IndexError"), NoneVal, <<>>, cl)
        ELSE IF merge /\ (Places(cl, resource_id) = {} \/ outcome = "read_fails")
        THEN Attempt(PyFalse, NoneVal, <<>>, cl)
        ELSE IF Places(cl, resource_id) = {} \/ outcome = "write_fails"
        THEN Attempt(PyFalse, existing, <<updated_tags>>, cl)
        ELSE Attempt(PyTrue, existing, <<updated_tags>>,
                     UpdateById(cl, resource_id, updated_tags))

----------------------------------------------------------------------------
(* The checker at work: main's scan loop, remediation calls and reports.    *)
(* The clock stands still here; SpecEval and SpecAgg let it advance.        *)

\* the resources of the two subscriptions: a virtual machine with one tag, a
\* storage account whose tags are None, a virtual machine with every tag, and
\* a resource with a short id and no tags entry
Inventory ==
    [s \in {"sub1", "sub2"} |->
        IF s = "sub1"
        THEN <<[id |-> IdVm1, name |-> "vm1", type |-> TypeVm,
                tags |-> [Environment |-> "Dev"]],
               [id |-> IdSt1, name |-> "st1", type |-> TypeSt, tags |-> NoneVal]>>
        ELSE <<[id |-> IdVm2, name |-> "vm2", type |-> TypeVm,
                tags |-> [Environment |-> "Dev", CostCenter |-> "Dev", Owner |-> "Dev"]],
               [id |-> IdShort, name |-> "short", type |-> TypeSt]>>]

\* the default rules of _set_default_remediation_rules, a notify_only rule,
\* and an exact rule behind a wildcard rule
RuleBooks ==
    {<<RemediationRule("*", "add_tags", [Environment |-> "Unknown"], TRUE)>>,
     <<RemediationRule("*", "notify_only", [Environment |-> "Unknown"], TRUE)>>,
     <<RemediationRule("*", "add_tags", [Environment |-> "Unknown"], FALSE),
       RemediationRule(TypeVm, "update_tags", [CostCenter |-> "Unknown"], TRUE)>>}

\* the default_tags a caller passes: one that collides with an existing tag,
\* and the one of the test, which fills gaps
CallerDefaults == {[Environment |-> "Unknown"],
                   [CostCenter |-> "Unknown", Owner |-> "Unknown"]}

\* the ids a caller remediates: a resource with a tag, a resource with every
\* tag, and an id without separator
RemediationIds == {IdVm1, IdVm2, IdBare}

Init ==
    /\ required_tags = <<"Environment", "CostCenter", "Owner">>
    /\ results = <<>>
    /\ cloud = Inventory
    /\ remediation_rules \in RuleBooks
    /\ remediations = 0
    /\ call = NoCall
    /\ retval = NoneVal
    /\ now = 0
    /\ sub_idx = 1
    /\ _config_instance = NoneVal

\* main: results = checker.scan_subscription(sub_id); checker.results.extend(results)
MainScan ==
    /\ sub_idx <= Len(Subscriptions)
    /\ \E fail_at \in 0..Len(cloud[Subscriptions[sub_idx]]) :
          LET subscription_results ==
                  scan_subscription(cloud, required_tags, Subscriptions[sub_idx],
                                    fail_at, now)
          IN  /\ call' = [op |-> "scan_subscription",
                          subscription_id |-> Subscriptions[sub_idx],
                          fail_at |-> fail_at]
              /\ retval' = subscription_results
              /\ results' = results \o subscription_results
    /\ sub_idx' = sub_idx + 1
    /\ UNCHANGED <<required_tags, cloud, remediation_rules, remediations, now,
                   _config_instance>>

\* the call record of a remediation call: its arguments, the rule the tags came
\* from (None for tags the caller chose), how Azure answered, what was read and
\* which update_by_id calls were issued
RemediationCall(op, resource_id, tags, merge, rule, outcome, attempt) ==
    [op |-> op, resource_id |-> resource_id, tags |-> tags, merge |-> merge,
     rule |-> rule, outcome |-> outcome, read |-> attempt.read,
     update_calls |-> attempt.update_calls]

\* checker.auto_remediate(resource_id, default_tags)
AutoRemediate ==
    \E resource_id \in RemediationIds, default_tags \in CallerDefaults,
       outcome \in Outcomes :
        LET attempt == auto_remediate(cloud, resource_id, default_tags, outcome)
        IN  /\ remediations < MaxRemediations
            /\ remediations' = remediations + 1
            /\ call' = RemediationCall("auto_remediate", resource_id, default_tags,
                                       TRUE, NoneVal, outcome, attempt)
            /\ retval' = attempt.result
            /\ cloud' = attempt.cloud
            /\ UNCHANGED <<required_tags, results, remediation_rules, now, sub_idx, _config_instance>>

\* a remediation by the rule book: the rule get_remediation_rule gives for the
\* resource's type, its default_tags passed to auto_remediate, which takes the
\* tags only and so cannot see the rule's action
RemediateByRule ==
    \E s \in DOMAIN cloud, outcome \in Outcomes :
      \E i \in 1..Len(cloud[s]) :
        LET resource == cloud[s][i]
            rule == get_remediation_rule(remediation_rules, resource.type)
            attempt == auto_remediate(cloud, resource.id, rule.default_tags, outcome)
        IN  /\ remediations < MaxRemediations
            /\ rule # NoneVal
            /\ remediations' = remediations + 1
            /\ call' = RemediationCall("auto_remediate", resource.id,
                                       rule.default_tags, TRUE, rule, outcome, attempt)
            /\ retval' = attempt.result
            /\ cloud' = attempt.cloud
            /\ UNCHANGED <<required_tags, results, remediation_rules, now, sub_idx, _config_instance>>

\* azure_client.update_resource_tags(resource_id, tags, merge)
UpdateResourceTags ==
    \E resource_id \in {IdVm1, IdBare}, tags \in {[Environment |-> "Unknown"]},
       merge \in BOOLEAN, outcome \in Outcomes :
        LET attempt == update_resource_tags(cloud, resource_id, tags, merge, outcome)
        IN  /\ remediations < MaxRemediations
            /\ remediations' = remediations + 1
            /\ call' = RemediationCall("update_resource_tags", resource_id, tags,
                                       merge, NoneVal, outcome, attempt)
            /\ retval' = attempt.result
            /\ cloud' = attempt.cloud
            /\ UNCHANGED <<required_tags, results, remediation_rules, now, sub_idx, _config_instance>>

Next ==
    \/ MainScan
    \/ AutoRemediate
    \/ RemediateByRule
    \/ UpdateResourceTags
    \/ GenerateReport

Spec == Init /\ [][Next]_vars

\* a verdict is 'compliant' with no tag missing and 'non_compliant' otherwise
StatusMatchesMissing(verdict) ==
    IF verdict.missing_tags = <<>>
    THEN verdict.compliance_status = "compliant"
    ELSE verdict.compliance_status = "non_compliant"

\* C2: every verdict of checker.results, and every verdict a scan returned, is
\* 'compliant' if and only if its missing_tags is empty, and 'non_compliant'
\* otherwise.
C2_StatusIffMissing ==
    /\ \A i \in 1..Len(results) : StatusMatchesMissing(results[i])
    /\ call.op = "scan_subscription" =>
           \A i \in 1..Len(retval) : StatusMatchesMissing(retval[i])

\* C2 witness: both subscriptions scanned, with a compliant verdict and a
\* non_compliant one in checker.results
C2_Witness ==
    /\ sub_idx > Len(Subscriptions)
    /\ \E i \in 1..Len(results) : results[i].compliance_status = "compliant"
    /\ \E i \in 1..Len(results) : results[i].compliance_status = "non_compliant"

\* the tags the resource had before a remediation call
TagsRead == Or(call.read, EmptyDict)

\* C3 (as claimed): when a remediation writes tags with merging, every key that
\* is both in the resource's tags and in the default tags is written with the
\* resource's value.
C3_ExistingTagsKept ==
    (call.op \in {"auto_remediate", "update_resource_tags"}
        /\ call.merge /\ call.update_calls # <<>>)
    => \A k \in DOMAIN TagsRead \cap DOMAIN call.tags :
           call.update_calls[1][k] = TagsRead[k]

\* C4 (as claimed): auto_remediate issues no update for a resource that misses
\* none of the required tags.
C4_NoWriteWhenCompliant ==
    (call.op = "auto_remediate" /\ call.update_calls # <<>>)
    => missing_tags_of(required_tags, TagsRead) # <<>>

\* C6: an auto_remediate call whose read or write fails returns False, raises
\* nothing and leaves checker.results as it was.
C6_FailedRemediation ==
    [][(call'.op = "auto_remediate" /\ remediations' # remediations
           /\ call'.outcome # "ok")
       => (retval' = PyFalse /\ results' = results)]_vars

\* C6 witness: the write for a resource with a non_compliant verdict failed
C6_Witness ==
    /\ call.op = "auto_remediate"
    /\ call.outcome = "write_fails"
    /\ call.update_calls # <<>>
    /\ retval = PyFalse
    /\ \E i \in 1..Len(results) :
           /\ results[i].resource_id = call.resource_id
           /\ results[i].compliance_status = "non_compliant"

\* C7 (as claimed): a remediation by a notify_only rule issues no update; an
\* update is issued only by an add_tags or update_tags rule and carries the
\* rule's default_tags.
C7_NotifyOnlyNoWrite ==
    (call.op = "auto_remediate" /\ call.rule # NoneVal)
    => /\ call.rule.action = "notify_only" => call.update_calls = <<>>
       /\ call.update_calls # <<>> =>
              /\ call.rule.action \in {"add_tags", "update_tags"}
              /\ \A k \in DOMAIN call.rule.default_tags :
                     call.update_calls[1][k] = call.rule.default_tags[k]

\* C21: no verdict that check_resource_compliance produced, in checker.results
\* or returned by scan_subscription, has the status 'remediated', also after a
\* remediation write succeeded: 'remediated' is not set by the evaluation, and
\* never without a successful write.
C21_NeverRemediatedByScan ==
    /\ \A i \in 1..Len(results) : results[i].compliance_status # "remediated"
    /\ call.op = "scan_subscription" =>
           \A i \in 1..Len(retval) : retval[i].compliance_status # "remediated"

\* C21 witness: a write succeeded for a resource whose verdict is in
\* checker.results, and the verdict is non_compliant as before
C21_Witness ==
    /\ call.op = "auto_remediate"
    /\ call.outcome = "ok"
    /\ call.update_calls # <<>>
    /\ retval = PyTrue
    /\ \E i \in 1..Len(results) :
           /\ results[i].resource_id = call.resource_id
           /\ results[i].compliance_status = "non_compliant"

\* C22: one call of auto_remediate or of update_resource_tags issues at most
\* one update_by_id, whether it succeeds or fails: none after a failed read,
\* and no second one after a failed write.
C22_AtMostOneUpdate ==
    call.op \in {"auto_remediate", "update_resource_tags"} =>
        /\ Len(call.update_calls) <= 1
        /\ (call.outcome = "read_fails" /\ call.merge) => call.update_calls = <<>>

\* C22 witness: the write of update_resource_tags failed after one update call
C22_Witness ==
    /\ call.op = "update_resource_tags"
    /\ call.outcome = "write_fails"
    /\ Len(call.update_calls) = 1
    /\ retval = PyFalse

----------------------------------------------------------------------------
(* Config: loading the policy files of the configuration directory *)

TagRequirement(name, required, default_value, allowed_values, description) ==
    [name |-> name, required |-> required, default_value |-> default_value,
     allowed_values |-> allowed_values, description |-> description]

\* what a file of the configuration directory holds: nothing (the file does not
\* exist), text that json.load rejects, or JSON data
FileMissing == [file |-> "missing"]

FileUnparsable == [file |-> "unparsable"]

JsonFile(data) == [file |-> "json", data |-> data]

_set_default_required_tags ==
    <<TagRequirement("Environment", TRUE, NoneVal,
                     <<"Dev", "Test", "Staging", "Production">>, "Deployment environment"),
      TagRequirement("CostCenter", TRUE, NoneVal, NoneVal, "Cost center for billing"),
      TagRequirement("Owner", TRUE, NoneVal, NoneVal, "Resource owner email or team name"),
      TagRequirement("Project", TRUE, NoneVal, NoneVal, "Project or initiative name"),
      TagRequirement("Criticality", TRUE, NoneVal,
                     <<"Low", "Medium", "High", "Critical">>, "Business criticality level")>>

_set_default_remediation_rules ==
    <<RemediationRule("*", "add_tags",
                      [Environment |-> "Unknown", ManagedBy |-> "Automation"], TRUE)>>

_set_default_settings ==
    [scan_interval_hours |-> 24, enable_auto_remediation |-> FALSE,
     compliance_threshold |-> 80, notification_enabled |-> TRUE,
     max_resources_per_scan |-> 10000]

\* Config._load_required_tags: the defaults if the file does not exist or if
\* anything raises (json.load, or tag_config['name'] on an entry without name:
\* the entries appended before it are dropped with the list); otherwise every
\* entry of data.get('tags', []) is appended as it is
_load_required_tags(existing, file) ==
    IF file.file # "json" THEN _set_default_required_tags
    ELSE LET tags == Get(file.data, "tags", <<>>)
         IN  IF \E i \in 1..Len(tags) : "name" \notin DOMAIN tags[i]
             THEN _set_default_required_tags
             ELSE existing \o
                  [i \in 1..Len(tags) |->
                      TagRequirement(tags[i].name,
                                     Get(tags[i], "required", TRUE),
                                     Get(tags[i], "default_value", NoneVal),
                                     Get(tags[i], "allowed_values", NoneVal),
                                     Get(tags[i], "description", NoneVal))]

\* Config._load_remediation_rules: the same, with rule_config['resource_type']
\* the key that must be there and action defaulting to 'add_tags'
_load_remediation_rules(existing, file) ==
    IF file.file # "json" THEN _set_default_remediation_rules
    ELSE LET rules == Get(file.data, "rules", <<>>)
         IN  IF \E i \in 1..Len(rules) : "resource_type" \notin DOMAIN rules[i]
             THEN _set_default_remediation_rules
             ELSE existing \o
                  [i \in 1..Len(rules) |->
                      RemediationRule(rules[i].resource_type,
                                      Get(rules[i], "action", "add_tags"),
                                      Get(rules[i], "default_tags", EmptyDict),
                                      Get(rules[i], "enabled", TRUE))]

\* Config._load_settings
_load_settings(file) ==
    IF file.file # "json" THEN _set_default_settings ELSE file.data

\* Config(config_dir): __init__ and load_configuration
Config(required_tags_file, remediation_rules_file, settings_file) ==
    [required_tags |-> _load_required_tags(<<>>, required_tags_file),
     remediation_rules |-> _load_remediation_rules(<<>>, remediation_rules_file),
     settings |-> _load_settings(settings_file)]

\* entries of the 'tags' list of required_tags.json: two names, one of them
\* with a default value, and an entry without a name
TagConfigs ==
    {[name |-> "Environment"],
     [name |-> "CostCenter", default_value |-> "Unknown"],
     [description |-> "Resource owner"]}

\* entries of the 'rules' list of remediation_rules.json: a wildcard rule with
\* nothing else, a full rule, a rule with an action that does not exist, and an
\* entry without resource_type
RuleConfigs ==
    {[resource_type |-> "*"],
     [resource_type |-> TypeVm, action |-> "update_tags",
      default_tags |-> [CostCenter |-> "Unknown"], enabled |-> FALSE],
     [resource_type |-> "*", action |-> "delete_resource"],
     [action |-> "notify_only"]}

RequiredTagsFiles ==
    {FileMissing, FileUnparsable, JsonFile(EmptyDict)}
    \cup {JsonFile([tags |-> l]) : l \in UNION {[1..n -> TagConfigs] : n \in 0..MaxEntries}}

RemediationRulesFiles ==
    {FileMissing, FileUnparsable, JsonFile(EmptyDict)}
    \cup {JsonFile([rules |-> l]) : l \in UNION {[1..n -> RuleConfigs] : n \in 0..MaxEntries}}

SettingsFiles == {FileMissing, FileUnparsable, JsonFile([compliance_threshold |-> 90])}

InitLoad ==
    /\ required_tags = <<>>
    /\ results = <<>>
    /\ cloud = [s \in {} |-> <<>>]
    /\ remediation_rules = <<>>
    /\ remediations = 0
    /\ call = NoCall
    /\ retval = NoneVal
    /\ now = 0
    /\ sub_idx = 1
    /\ _config_instance = NoneVal

\* Config(config_dir) on the files of one configuration directory
LoadConfig ==
    \E required_tags_file \in RequiredTagsFiles,
       remediation_rules_file \in RemediationRulesFiles,
       settings_file \in SettingsFiles :
        /\ call = NoCall
        /\ call' = [op |-> "Config", required_tags_file |-> required_tags_file,
                    remediation_rules_file |-> remediation_rules_file,
                    settings_file |-> settings_file]
        /\ retval' = Config(required_tags_file, remediation_rules_file, settings_file)
        /\ remediation_rules' = retval'.remediation_rules
        /\ UNCHANGED <<required_tags, results, cloud, remediations, now, sub_idx,
                       _config_instance>>

NextLoad == LoadConfig

SpecLoad == InitLoad /\ [][NextLoad]_vars

\* the policy of the files names a tag twice or has a rule with an action
\* other than the three
Malformed(required_tags_file, remediation_rules_file) ==
    \/ /\ required_tags_file.file = "json"
       /\ LET tags == Get(required_tags_file.data, "tags", <<>>)
          IN  \E i, j \in 1..Len(tags) :
                  /\ i # j
                  /\ {"name"} \subseteq DOMAIN tags[i] \cap DOMAIN tags[j]
                  /\ tags[i].name = tags[j].name
    \/ /\ remediation_rules_file.file = "json"
       /\ LET rules == Get(remediation_rules_file.data, "rules", <<>>)
          IN  \E i \in 1..Len(rules) :
                  /\ "action" \in DOMAIN rules[i]
                  /\ rules[i].action \notin {"add_tags", "update_tags", "notify_only"}

\* C20: loading a policy with a duplicate tag name or with a rule action other
\* than add_tags, update_tags and notify_only fails, so that in every Config
\* that exists the names of required_tags are pairwise distinct and every
\* rule's action is one of the three.
C20_MalformedPolicyRejected ==
    call.op = "Config" =>
        /\ Malformed(call.required_tags_file, call.remediation_rules_file)
               => IsRaised(retval)
        /\ ~ IsRaised(retval) =>
               /\ \A i, j \in 1..Len(retval.required_tags) :
                      i # j => retval.required_tags[i].name # retval.required_tags[j].name
               /\ \A i \in 1..Len(retval.remediation_rules) :
                      retval.remediation_rules[i].action
                          \in {"add_tags", "update_tags", "notify_only"}

----------------------------------------------------------------------------
(* NotificationService.format_compliance_message *)

\* str(n): the decimal text of the number
Str(n) == [str |-> n]

\* f'{compliance_rate}%': the text of the rate followed by the percent sign
Percent(rate) == <<Str(rate), "%">>

\* mutant: the thresholds compared with > instead of >=
format_compliance_message_above(compliance_rate, total_resources, compliant, non_compliant, report_url) ==
    LET status == IF compliance_rate > 9000 THEN <<"check_mark", "good">>
                  ELSE IF compliance_rate > 7500 THEN <<"warning_sign", "warning">>
                  ELSE <<"cross_mark", "danger">>
        fields == <<[name |-> "Overall Compliance Rate", value |-> Percent(compliance_rate)],
                    [name |-> "Total Resources", value |-> Str(total_resources)],
                    [name |-> "Compliant", value |-> Str(compliant)],
                    [name |-> "Non-Compliant", value |-> Str(non_compliant)]>>
    IN  [title |-> <<status[1], "Azure Tag Compliance Report">>,
         text |-> <<"Compliance Check completed at", now>>,
         color |-> status[2],
         fields |-> IF Falsy(report_url) THEN fields
                    ELSE Append(fields, [name |-> "Full Report", value |-> report_url])]

\* format_compliance_message, the rate in hundredths of a percent: the emoji
\* and the colour by the thresholds 90 and 75, the four fields, and the field
\* of the report url if one is given and is not empty
format_compliance_message(compliance_rate, total_resources, compliant, non_compliant, report_url) ==
    LET status == IF compliance_rate >= 9000 THEN <<"check_mark", "good">>
                  ELSE IF compliance_rate >= 7500 THEN <<"warning_sign", "warning">>
                  ELSE <<"cross_mark", "danger">>
        fields == <<[name |-> "Overall Compliance Rate", value |-> Percent(compliance_rate)],
                    [name |-> "Total Resources", value |-> Str(total_resources)],
                    [name |-> "Compliant", value |-> Str(compliant)],
                    [name |-> "Non-Compliant", value |-> Str(non_compliant)]>>
    IN  [title |-> <<status[1], "Azure Tag Compliance Report">>,
         text |-> <<"Compliance Check completed at", now>>,
         color |-> status[2],
         fields |-> IF Falsy(report_url) THEN fields
                    ELSE Append(fields, [name |-> "Full Report", value |-> report_url])]

\* compliance rates in hundredths: the rates of the tests (95.0, 80.0, 50.0),
\* the two thresholds and their neighbours, the ends of the scale and a rate
\* on either side of it
Rates == {-100, 0, 5000, 7499, 7500, 7501, 8000, 8999, 9000, 9001, 9500, 10000, 10100}

\* report urls: none, the empty text, and a url
ReportUrls == {NoneVal, <<>>, <<"https:", "/", "/", "reports", "/", "latest">>}

InitNotify ==
    /\ required_tags = <<>>
    /\ results = <<>>
    /\ cloud = [s \in {} |-> <<>>]
    /\ remediation_rules = <<>>
    /\ remediations = 0
    /\ call = NoCall
    /\ retval = NoneVal
    /\ now = 0
    /\ sub_idx = 1
    /\ _config_instance = NoneVal

\* service.format_compliance_message(...) once, at any time
FormatComplianceMessage ==
    \E compliance_rate \in Rates, total_resources \in 0..MaxCount,
       compliant \in 0..MaxCount, non_compliant \in 0..MaxCount,
       report_url \in ReportUrls :
        /\ call.op # "format_compliance_message"
        /\ call' = [op |-> "format_compliance_message",
                    compliance_rate |-> compliance_rate,
                    total_resources |-> total_resources, compliant |-> compliant,
                    non_compliant |-> non_compliant, report_url |-> report_url]
        /\ retval' = format_compliance_message(compliance_rate, total_resources,
                                               compliant, non_compliant, report_url)
        /\ UNCHANGED <<required_tags, results, cloud, remediation_rules, remediations,
                       now, sub_idx, _config_instance>>

NextNotify == FormatComplianceMessage \/ Tick

SpecNotify == InitNotify /\ [][NextNotify]_vars

\* C25: the colour of the message is 'good' for a rate of 90 or more,
\* 'warning' for a rate of at least 75 and below 90 and 'danger' for a rate
\* below 75, one of the three for every rate, and the message has the fields
\* of the rate, the total, the compliant and the non-compliant count.
C25_ColourByThreshold ==
    call.op = "format_compliance_message" =>
        LET rate == call.compliance_rate
        IN  /\ retval.color \in {"good", "warning", "danger"}
            /\ retval.color = "good" <=> rate >= 9000
            /\ retval.color = "warning" <=> (rate >= 7500 /\ rate < 9000)
            /\ retval.color = "danger" <=> rate < 7500
            /\ Len(retval.fields) >= 4
            /\ \A name \in {"Overall Compliance Rate", "Total Resources",
                            "Compliant", "Non-Compliant"} :
                   Cardinality({i \in 1..Len(retval.fields) :
                                   retval.fields[i].name = name}) = 1

\* C25 witness: a rate of exactly 75 is a warning, in a message with a report
\* url
C25_Witness ==
    /\ call.op = "format_compliance_message"
    /\ call.compliance_rate = 7500
    /\ retval.color = "warning"
    /\ Len(retval.fields) = 5

----------------------------------------------------------------------------
(* main: the report written as JSON *)

\* a key that json.dump cannot write: a tuple (str, int, float, bool and None
\* are the key types it writes)
IsTupleKey(k) == k \in Seq(STRING)

\* json.dump(report, f, indent=2): the document written to the file, or the
\* TypeError raised at the first key that is a tuple
json_dump(report) ==
    IF \E k \in DOMAIN report.resource_type_breakdown : IsTupleKey(k)
    THEN Raised("TypeError")
    ELSE [written |-> report]

\* main: with open(report_file, 'w') as f: json.dump(report, f, indent=2)
SaveReport ==
    /\ call.op = "generate_compliance_report"
    /\ call' = [op |-> "json.dump", report |-> retval]
    /\ retval' = json_dump(retval)
    /\ UNCHANGED <<required_tags, results, cloud, remediation_rules, remediations, now, sub_idx,
                   _config_instance>>

NextSave == GenerateReport \/ SaveReport \/ Tick

SpecSave == InitAgg /\ [][NextSave]_vars

\* the string '<type>|<status>', as its three parts
PipeKey(type, status) == <<type, "|", status>>

\* C26: the keys of resource_type_breakdown are strings of the form
\* '<type>|<status>', and the report is written as JSON
C26_BreakdownKeysAreStrings ==
    /\ call.op = "generate_compliance_report" =>
           \A k \in DOMAIN retval.resource_type_breakdown :
               \E i \in 1..Len(results) :
                   k = PipeKey(results[i].resource_type, results[i].compliance_status)
    /\ call.op = "json.dump" => ~IsRaised(retval)

----------------------------------------------------------------------------
(* A verdict and the resource dict it was made from, in the caller's hands *)

\* resource.get('tags', {}) or {} is the object resource['tags'] itself when that
\* is a non-empty mapping, and a new empty dict otherwise; current_tags=current_tags
\* puts that object, not a copy of it, into the ComplianceResult
SharesTags(resource) == ~Falsy(Get(resource, "tags", EmptyDict))

\* the resource dicts of a caller: with a tags mapping, with tags None and
\* without the tags key
CallerResources ==
    {[id |-> IdVm1, name |-> "vm1", type |-> TypeVm, tags |-> g] :
        g \in Dicts \cup {NoneVal}}
    \cup {[id |-> IdVm1, name |-> "vm1", type |-> TypeVm]}

\* the caller's dict d with d['tags'] = g
WithTagsEntry(d, g) ==
    [k \in DOMAIN d \cup {"tags"} |-> IF k = "tags" THEN g ELSE d[k]]

\* check_resource_compliance(resource, subscription_id) by a caller that keeps
\* the resource dict; shared says that resource['tags'] and the current_tags of
\* the verdict returned are one object
CheckCallerResource ==
    \E resource \in CallerResources :
        /\ call = NoCall
        /\ call' = [op |-> "check_resource_compliance", resource |-> resource,
                    subscription_id |-> "sub1", shared |-> SharesTags(resource)]
        /\ retval' = check_resource_compliance(required_tags, resource, "sub1", now)
        /\ UNCHANGED <<required_tags, results, cloud, remediation_rules, remediations,
                       now, sub_idx, _config_instance>>

\* the caller's resource['tags'][k] = v after the call: it writes into the
\* object, and so into the verdict's current_tags when that is the same object
SetTagInPlace ==
    \E k \in TagKeys, v \in TagValues :
        /\ call.op = "check_resource_compliance"
        /\ "tags" \in DOMAIN call.resource
        /\ call.resource.tags # NoneVal
        /\ LET tags == Merge(call.resource.tags, [t \in {k} |-> v])
           IN  /\ tags # call.resource.tags
               /\ call' = [call EXCEPT !.resource = WithTagsEntry(call.resource, tags)]
               /\ retval' = IF call.shared
                            THEN [retval EXCEPT !.current_tags = tags]
                            ELSE retval
        /\ UNCHANGED <<required_tags, results, cloud, remediation_rules, remediations,
                       now, sub_idx, _config_instance>>

\* the caller's resource['tags'] = g after the call: the dict gets another
\* object, the verdict keeps the one it has
RebindTags ==
    \E g \in Dicts \cup {NoneVal} :
        /\ call.op = "check_resource_compliance"
        /\ Get(call.resource, "tags", Raised("KeyError")) # g
        /\ call' = [call EXCEPT !.resource = WithTagsEntry(call.resource, g),
                                !.shared = FALSE]
        /\ UNCHANGED <<required_tags, results, cloud, remediation_rules, remediations,
                       retval, now, sub_idx, _config_instance>>

NextAlias == CheckCallerResource \/ SetTagInPlace \/ RebindTags \/ Tick

InitAlias ==
    /\ required_tags \in {<<"Environment", "CostCenter", "Owner">>, <<"Owner">>, <<>>}
    /\ results = <<>>
    /\ cloud = [s \in {} |-> <<>>]
    /\ remediation_rules = <<>>
    /\ remediations = 0
    /\ call = NoCall
    /\ retval = NoneVal
    /\ now = 0
    /\ sub_idx = 1
    /\ _config_instance = NoneVal

SpecAlias == InitAlias /\ [][NextAlias]_vars

\* C27: a verdict is immutable once produced and its current_tags is a
\* snapshot: whatever the caller does afterwards to the tags of the resource
\* that was evaluated, no field of the verdict changes
C27_VerdictIsSnapshot ==
    [][(call.op = "check_resource_compliance" /\ call'.op = call.op)
           => retval' = retval]_vars

----------------------------------------------------------------------------
(* main: the scan loop over the subscriptions and the report, over          *)
(* subscriptions whose scan may fail at any resource                         *)

InitMain ==
    /\ required_tags \in ReqTagLists
    /\ results = <<>>
    /\ cloud = ScanCloud
    /\ remediation_rules = <<>>
    /\ remediations = 0
    /\ call = NoCall
    /\ retval = NoneVal
    /\ now = 0
    /\ sub_idx = 1
    /\ _config_instance = NoneVal

NextMain == MainScan \/ GenerateReport \/ Tick

SpecMain == InitMain /\ [][NextMain]_vars

\* the resources of the list that come before the failure: the enumeration
\* fails after fail_at resources, the evaluation at a resource without id, name
\* or type
BeforeFailure(list, fail_at) ==
    {i \in 1..Len(list) :
        \A j \in 1..i : /\ j <= fail_at
                        /\ {"id", "name", "type"} \subseteq DOMAIN list[j]}

\* the position of the subscription in the list main goes through
SubscriptionIndex(subscription_id) ==
    CHOOSE k \in 1..Len(Subscriptions) : Subscriptions[k] = subscription_id

\* C28: a scan_subscription that fails at a resource, in the enumeration or in
\* the evaluation, does not raise: it returns the verdicts of the resources
\* before the failure, in the order of the enumeration, and none of a later
\* resource; main appends them to the verdicts collected, goes on with the
\* next subscription, and the report counts the verdicts collected.
C28_PartialScan ==
    /\ call.op = "scan_subscription" =>
           LET list == cloud[call.subscription_id]
               before == BeforeFailure(list, call.fail_at)
           IN  /\ DOMAIN retval \subseteq Nat
               /\ Len(retval) = Cardinality(before)
               /\ \A i \in 1..Len(retval) :
                      /\ i \in before
                      /\ retval[i].resource_id = list[i].id
                      /\ retval[i].resource_name = list[i].name
                      /\ retval[i].subscription_id = call.subscription_id
               /\ Len(results) >= Len(retval)
               /\ SubSeq(results, Len(results) - Len(retval) + 1, Len(results)) = retval
               /\ sub_idx = SubscriptionIndex(call.subscription_id) + 1
    /\ call.op = "generate_compliance_report" =>
           retval.summary.total_resources = Len(results)

\* C28 witness: the scan of sub1 failed in the enumeration after one resource,
\* and the scan of sub2 that followed failed in the evaluation of its second
\* resource of three
C28_Witness ==
    /\ call.op = "scan_subscription"
    /\ call.subscription_id = "sub2"
    /\ call.fail_at = Len(cloud["sub2"])
    /\ Len(retval) = 1
    /\ Len(results) = 2
    /\ results[1].subscription_id = "sub1"
    /\ results[2] = retval[1]

\* C29: in every report over the verdicts that main's scans collected, over any
\* number of subscriptions, summary.remediated is 0, total_resources is
\* compliant + non_compliant, the missing_count of a required tag is at most
\* non_compliant, and every non_compliant verdict is counted in the
\* missing_count of at least one tag. (The report of no verdicts has no entry
\* for any tag.)
C29_PipelineReport ==
    call.op = "generate_compliance_report" =>
        LET summary == retval.summary
            stats == retval.tag_statistics
        IN  /\ summary.remediated = 0
            /\ summary.total_resources = summary.compliant + summary.non_compliant
            /\ summary.total_resources = Len(results)
            /\ \A i \in 1..Len(required_tags) :
                   /\ results # <<>> => required_tags[i] \in DOMAIN stats
                   /\ required_tags[i] \in DOMAIN stats =>
                          stats[required_tags[i]].missing_count <= summary.non_compliant
            /\ \A i \in 1..Len(results) :
                   results[i].compliance_status = "non_compliant" =>
                       \E g \in DOMAIN stats :
                           /\ stats[g].missing_count >= 1
                           /\ \E j \in 1..Len(results[i].missing_tags) :
                                  results[i].missing_tags[j] = g

\* C29 witness: the report over both subscriptions, one verdict compliant and
\* two non_compliant, Environment missing in one of them and Owner in both
C29_Witness ==
    /\ call.op = "generate_compliance_report"
    /\ sub_idx = Len(Subscriptions) + 1
    /\ retval.summary.total_resources = 3
    /\ retval.summary.compliant = 1
    /\ retval.summary.non_compliant = 2
    /\ DOMAIN retval.tag_statistics = {"Environment", "CostCenter", "Owner"}
    /\ retval.tag_statistics["Environment"].missing_count = 1
    /\ retval.tag_statistics["Owner"].missing_count = 2

----------------------------------------------------------------------------
(* get_config and the module's global instance *)

\* Config(config_dir) with its config_dir attribute, found being the three
\* files that the directory holds when __init__ runs
ConfigOf(config_dir, found) ==
    LET loaded == Config(found[1], found[2], found[3])
    IN  [config_dir |-> config_dir,
         required_tags |-> loaded.required_tags,
         remediation_rules |-> loaded.remediation_rules,
         settings |-> loaded.settings]

\* mutant: a Config of the directory given is built at every call
get_config_reloading(instance, config_dir, found) == ConfigOf(config_dir, found)

\* get_config(config_dir): the value of _config_instance after the call, which
\* is what the call returns
get_config(instance, config_dir, found) ==
    IF instance = NoneVal THEN ConfigOf(config_dir, found) ELSE instance

ConfigDirs == {"config", "other"}

\* what a configuration directory holds: required_tags.json missing, not
\* JSON, without tags, with one tag or with an entry without name; the rules
\* file missing or with one wildcard rule; the settings file missing or there
DirContents ==
    {FileMissing, FileUnparsable, JsonFile(EmptyDict),
     JsonFile([tags |-> <<[name |-> "Environment"]>>]),
     JsonFile([tags |-> <<[description |-> "Resource owner"]>>])}
    \X {FileMissing, JsonFile([rules |-> <<[resource_type |-> "*"]>>])}
    \X {FileMissing, JsonFile([compliance_threshold |-> 90])}

\* get_config(config_dir), the directory holding the files found at that time
GetConfig ==
    \E config_dir \in ConfigDirs, found \in DirContents :
        /\ call' = [op |-> "get_config", config_dir |-> config_dir, found |-> found]
        /\ _config_instance' = get_config(_config_instance, config_dir, found)
        /\ retval' = _config_instance'
        /\ UNCHANGED <<required_tags, results, cloud, remediation_rules, remediations,
                       now, sub_idx>>

NextConfig == GetConfig \/ Tick

SpecConfig == InitLoad /\ [][NextConfig]_vars

\* C30: get_config builds the Config at its first call only; every later call,
\* whatever config_dir it is given and whatever that directory holds, returns
\* the instance of the first call and leaves it as it is.
C30_ConfigBuiltOnce ==
    [][(call'.op = "get_config" /\ now' = now) =>
           /\ retval' = _config_instance'
           /\ _config_instance = NoneVal =>
                  /\ retval'.config_dir = call'.config_dir
                  /\ retval'.required_tags
                         = _load_required_tags(<<>>, call'.found[1])
           /\ _config_instance # NoneVal =>
                  /\ _config_instance' = _config_instance
                  /\ retval' = _config_instance]_vars

\* C30 witness: get_config('other') after the first call, the directory other
\* holding a policy of one tag, returns the instance built from the directory
\* config with the default policy
C30_Witness ==
    /\ call.op = "get_config"
    /\ call.config_dir = "other"
    /\ call.found[1] = JsonFile([tags |-> <<[name |-> "Environment"]>>])
    /\ retval = _config_instance
    /\ retval.config_dir = "config"
    /\ retval.required_tags = _set_default_required_tags

====
